---- MODULE Spec2Model ----
(***************************************************************************)
(* Model of DSC_Plotter.py: the TRIOS export parser get_data (with its     *)
(* nested scanner find_section_indices), the column lookup get_key_index   *)
(* and the plotting function plot_SDT with its checkbox callback           *)
(* toggle_visibility.                                                      *)
(*                                                                         *)
(* Text is modelled character by character: a Python str is a sequence of  *)
(* one-character strings, offsets are 0-based as in Python, and slicing,   *)
(* splitting, stripping, lower-casing and the regular expression are       *)
(* operators that compute what the Python library computes.  A raised      *)
(* exception ends the script: pc names the function it left, err its type. *)
(***************************************************************************)
EXTENDS Integers, Sequences, FiniteSets, TLC

VARIABLES
    pc,               \* position in the script (lines 248-249 and below)
    raw,              \* get_data: the file text with '\n[general]\n' prepended
    start_indices,    \* get_data: offsets of the header matches
    end_indices,      \* get_data: offsets just after the header matches
    section_titles,   \* get_data: the header titles
    num_steps,        \* get_data: count returned by find_section_indices
    i,                \* loop variable of the loop that is running
    section,          \* get_data: the section body sliced last
    data,             \* the record [meta, steps] built by get_data
    err,              \* name of the exception raised, "none" otherwise
    num_data,         \* plot_SDT: the filtered rows of the current step
    label_index_dict, \* plot_SDT: checkbox label -> line index
    visible,          \* plot_SDT: visibility of ax.lines, in plot order
    clicks,           \* number of on_clicked events delivered, per line
    arg_alias,        \* get_key_index: the argument alias of a call
    arg_steps,        \* get_key_index: the argument steps (column names)
    key_index         \* get_key_index: the value returned

vars == <<pc, raw, start_indices, end_indices, section_titles, num_steps, i,
          section, data, err, num_data, label_index_dict, visible, clicks,
          arg_alias, arg_steps, key_index>>

parse_vars == <<raw, start_indices, end_indices, section_titles, num_steps,
                section, data>>
plot_vars == <<num_data, label_index_dict, visible, clicks>>
key_vars == <<arg_alias, arg_steps, key_index>>

(***************************************************************************)
(* Bounds of the model.                                                    *)
(***************************************************************************)
MaxChunks == 4    \* pieces (lines or line groups) an input file is made of
MaxClicks == 3    \* checkbox clicks delivered in one run
MaxAliasLen == 1  \* characters of a get_key_index alias
MaxNameLen == 2   \* characters of a column name given to get_key_index
MaxVars == 2      \* column names given to get_key_index

(***************************************************************************)
(* Characters and Python str operations.                                   *)
(***************************************************************************)
NL == "\n"
TAB == "\t"
\* Python values of get_key_index: an int, or None (of type NoneType)
None == [type |-> "NoneType"]
Index(n) == [type |-> "int", value |-> n]

Whitespace == {" ", TAB, NL}
Digits == {"0", "1", "2", "3", "4", "5", "6", "7", "8", "9"}
WordChars == Digits \cup
    {"a", "b", "c", "e", "f", "g", "h", "i", "k", "l", "m", "n", "o", "p", "q",
     "r", "s", "t", "v", "C", "E", "P", "S", "T", "W", "_"}

\* s[a:b] for offsets 0 <= a, 0 <= b (Python clamps both to len(s))
Slice(s, a, b) ==
    LET hi == IF b > Len(s) THEN Len(s) ELSE b
    IN  IF a >= hi THEN <<>> ELSE SubSeq(s, a + 1, hi)

\* str.lower() on one character
LowerChar(c) ==
    CASE c = "C" -> "c" [] c = "E" -> "e" [] c = "P" -> "p"
      [] c = "S" -> "s" [] c = "T" -> "t" [] c = "W" -> "w"
      [] OTHER -> c

Lower(s) == [k \in 1..Len(s) |-> LowerChar(s[k])]

RECURSIVE LStrip(_)
LStrip(s) ==
    IF s # <<>> /\ Head(s) \in Whitespace THEN LStrip(Tail(s)) ELSE s

RECURSIVE RStrip(_)
RStrip(s) ==
    IF s # <<>> /\ s[Len(s)] \in Whitespace
    THEN RStrip(SubSeq(s, 1, Len(s) - 1)) ELSE s

Strip(s) == RStrip(LStrip(s))

\* s.split(sep) for a one-character separator: always at least one field
RECURSIVE SplitFrom(_, _, _, _)
SplitFrom(s, sep, k, cur) ==
    IF k > Len(s) THEN <<cur>>
    ELSE IF s[k] = sep THEN <<cur>> \o SplitFrom(s, sep, k + 1, <<>>)
    ELSE SplitFrom(s, sep, k + 1, Append(cur, s[k]))

Split(s, sep) == SplitFrom(s, sep, 1, <<>>)

\* s.replace(old, new) for one-character old and new
Replace(s, old, new) == [k \in 1..Len(s) |-> IF s[k] = old THEN new ELSE s[k]]

\* a in b
IsSubstring(a, b) ==
    \E k \in 0..(Len(b) - Len(a)) : SubSeq(b, k + 1, k + Len(a)) = a

\* str(n) for n >= 0
RECURSIVE Str(_)
Str(n) ==
    LET d == CHOOSE c \in Digits :
                 c = <<"0", "1", "2", "3", "4", "5", "6", "7", "8", "9">>[(n % 10) + 1]
    IN  IF n < 10 THEN <<d>> ELSE Append(Str(n \div 10), d)

(***************************************************************************)
(* float(): the tokens of the model are built from digits, '.', letters    *)
(* and brackets; none spells a sign, an exponent, 'inf' or 'nan'.  A       *)
(* float is kept exactly, as the integer m of all its digits and the       *)
(* number e of digits after the point (value m / 10^e), trailing zeros of  *)
(* the fraction removed.                                                   *)
(***************************************************************************)
IsFloatString(tok) ==
    LET t == Strip(tok)
    IN  /\ \A k \in 1..Len(t) : t[k] \in Digits \cup {"."}
        /\ Cardinality({k \in 1..Len(t) : t[k] = "."}) <= 1
        /\ \E k \in 1..Len(t) : t[k] \in Digits

DigitValue(c) ==
    CHOOSE n \in 0..9 : <<"0", "1", "2", "3", "4", "5", "6", "7", "8", "9">>[n + 1] = c

RECURSIVE DigitsValue(_)
DigitsValue(s) ==
    IF s = <<>> THEN 0
    ELSE 10 * DigitsValue(SubSeq(s, 1, Len(s) - 1)) + DigitValue(s[Len(s)])

RECURSIVE Normalize(_, _)
Normalize(m, e) ==
    IF e > 0 /\ m % 10 = 0 THEN Normalize(m \div 10, e - 1) ELSE [m |-> m, e |-> e]

float(tok) ==
    LET t == Strip(tok)
        parts == Split(t, ".")
        frac == IF Len(parts) > 1 THEN parts[2] ELSE <<>>
    IN  Normalize(DigitsValue(parts[1] \o frac), Len(frac))

(***************************************************************************)
(* find_section_indices (lines 59-83): re.finditer over                    *)
(* r'\n\[[\w\s]+\]\n'.  Neither '[' nor ']' is in the class [\w\s], so the *)
(* class run after '\n[' is matched to its full length and the match       *)
(* stands or falls with the two characters after it.  Matches do not       *)
(* overlap: the search resumes at the end of a match.                      *)
(***************************************************************************)
InClass(c) == c \in WordChars \cup Whitespace

\* number of class characters of string from offset p on
RECURSIVE ClassRun(_, _)
ClassRun(string, p) ==
    IF p < Len(string) /\ InClass(string[p + 1])
    THEN 1 + ClassRun(string, p + 1) ELSE 0

\* the end offset of the match that starts at offset p, -1 if there is none
MatchEnd(string, p) ==
    IF /\ p + 5 <= Len(string)
       /\ string[p + 1] = NL
       /\ string[p + 2] = "["
    THEN LET n == ClassRun(string, p + 2)
         IN  IF /\ n >= 1
                /\ p + n + 4 <= Len(string)
                /\ string[p + n + 3] = "]"
                /\ string[p + n + 4] = NL
             THEN p + n + 4 ELSE -1
    ELSE -1

\* the matches of re.finditer(section_rex, string) from offset p on
RECURSIVE finditer(_, _)
finditer(string, p) ==
    IF p >= Len(string) THEN <<>>
    ELSE LET e == MatchEnd(string, p)
         IN  IF e = -1 THEN finditer(string, p + 1)
             ELSE <<[start |-> p, end |-> e, group |-> Slice(string, p, e)]>>
                  \o finditer(string, e)

StepHeader == <<NL, "[", "s", "t", "e", "p", "]", NL>>

find_section_indices(string) ==
    LET ms == finditer(string, 0)
    IN  [start_indices |-> [k \in 1..Len(ms) |-> ms[k].start],
         end_indices |-> [k \in 1..Len(ms) |-> ms[k].end],
         section_titles |->
             [k \in 1..Len(ms) |-> Slice(ms[k].group, 2, Len(ms[k].group) - 2)],
         num_steps |-> Cardinality({k \in 1..Len(ms) : ms[k].group = StepHeader})]

(***************************************************************************)
(* Input files.  A file is a sequence of at most MaxChunks chunks joined   *)
(* by newlines (so a file whose last chunk is the empty line ends with a   *)
(* newline, any other file does not).  A chunk is one line or a group of   *)
(* lines of a TRIOS export.                                                *)
(***************************************************************************)
HeaderStep == <<"[", "s", "t", "e", "p", "]">>
HeaderStepCap == <<"[", "S", "t", "e", "p", "]">>
HeaderInfo == <<"[", "i", "n", "f", "o", "]">>
HeaderTwoLines == <<"[", "a", NL, "b", "]">>
BlankLine == <<>>
MetaLine == <<"k", TAB, "v">>
MetaLineTwoTabs == <<"a", TAB, "b", TAB, "c">>
ProgramLine == <<"P", TAB, "q">>
VariablesLine == <<"t", "i", "m", "e", TAB, "t", "e", "m", "p", TAB, "h", "e", "a", "t">>
UnitsLine == <<"s", TAB, "C", TAB, "m", "W">>
DataLine == <<"1", ",", "5", TAB, "2", TAB, "3", "0">>
ShortDataLine == <<"4", TAB, "5">>

\* the header of a step section with its program, variables, units and one row
StepBlock ==
    HeaderStep \o <<NL>> \o ProgramLine \o <<NL>> \o VariablesLine \o <<NL>>
        \o UnitsLine \o <<NL>> \o DataLine

Chunks ==
    {HeaderStep, HeaderStepCap, HeaderInfo, HeaderTwoLines, BlankLine, MetaLine,
     MetaLineTwoTabs, StepBlock, ShortDataLine}

RECURSIVE Join(_)
Join(cs) ==
    IF cs = <<>> THEN <<>>
    ELSE IF Len(cs) = 1 THEN cs[1]
    ELSE cs[1] \o <<NL>> \o Join(Tail(cs))

Files == {Join(cs) : cs \in UNION {[1..n -> Chunks] : n \in 0..MaxChunks}}

GeneralHeader == <<NL, "[", "g", "e", "n", "e", "r", "a", "l", "]", NL>>

Step == <<"s", "t", "e", "p">>

\* section_titles[i].strip().lower() == 'step' (line 113)
IsStepTitle(title) == Lower(Strip(title)) = Step

\* list[k] for a 0-based index k
At(list, k) == list[k + 1]

NoData == [meta |-> <<>>, steps |-> <<>>]

(***************************************************************************)
(* get_data (lines 53-131).                                                *)
(***************************************************************************)
\* an exception that leaves fn; nothing catches it and the script ends
Raise(fn, name) ==
    /\ pc' = IF fn = "get_data" THEN "get_data_raised" ELSE "plot_SDT_raised"
    /\ err' = name

\* lines 87-95: the file is read, the synthetic header prepended, the text
\* scanned and the result record created
get_data_scan ==
    /\ pc = "get_data"
    /\ LET found == find_section_indices(raw)
       IN  /\ start_indices' = found.start_indices
           /\ end_indices' = found.end_indices
           /\ section_titles' = found.section_titles
           /\ num_steps' = found.num_steps
    /\ data' = NoData
    /\ i' = 0
    /\ pc' = "meta"
    /\ UNCHANGED <<raw, section, err, plot_vars, key_vars>>

\* line 108: the dict comprehension over the lines of a section body; a later
\* line with the same key overwrites an earlier one
MetaDict(lines) ==
    LET fields == [k \in 1..Len(lines) |-> Split(lines[k], TAB)]
        last(key) == CHOOSE k \in 1..Len(lines) :
                        /\ fields[k][1] = key
                        /\ \A j \in (k + 1)..Len(lines) : fields[j][1] # key
    IN  [key \in {fields[k][1] : k \in 1..Len(lines)} |-> fields[last(key)][2]]

\* line 108 raises IndexError when a line has no second field
MetaRaises(lines) == \E k \in 1..Len(lines) : Len(Split(lines[k], TAB)) < 2

\* line 106: the body of section i as the metadata loop slices it
MetaSection(i0) ==
    Slice(raw, At(start_indices, i0) + Len(At(section_titles, i0)) + 4,
          At(start_indices, i0 + 1))

\* lines 102-108: one iteration of the metadata loop
get_data_meta ==
    /\ pc = "meta"
    /\ i < Len(start_indices) - num_steps
    /\ IF i + 1 >= Len(start_indices)
       THEN /\ Raise("get_data", "IndexError")
            /\ UNCHANGED <<i, section, data>>
       ELSE LET section_title == At(section_titles, i)
                lines == Split(MetaSection(i), NL)
            IN  /\ section' = MetaSection(i)
                /\ IF MetaRaises(lines)
                   THEN /\ Raise("get_data", "IndexError")
                        /\ UNCHANGED <<i, data>>
                   ELSE /\ data' = [data EXCEPT !.meta =
                               [t \in DOMAIN data.meta \cup {section_title} |->
                                   IF t = section_title THEN MetaDict(lines)
                                   ELSE data.meta[t]]]
                        /\ i' = i + 1
                        /\ UNCHANGED <<pc, err>>
    /\ UNCHANGED <<raw, start_indices, end_indices, section_titles, num_steps,
                   plot_vars, key_vars>>

\* line 111: the metadata loop is over, len(raw) is appended to start_indices
get_data_extend ==
    /\ pc = "meta"
    /\ i >= Len(start_indices) - num_steps
    /\ start_indices' = Append(start_indices, Len(raw))
    /\ i' = 0
    /\ pc' = "steps"
    /\ UNCHANGED <<raw, end_indices, section_titles, num_steps, section, data,
                   err, plot_vars, key_vars>>

\* line 118: the body of section i as the step loop slices it
StepSection(i0) == Slice(raw, At(end_indices, i0), At(start_indices, i0 + 1) - 1)

\* line 127: the tokens of a data line that are converted
Tokens(line) ==
    SelectSeq(Split(Replace(line, ",", "."), TAB), LAMBDA num : num # <<>>)

\* line 127: the rows of the lines after the third, empty lines left out
NumRows(lines) ==
    LET rest == SelectSeq(SubSeq(lines, 4, Len(lines)), LAMBDA line : line # <<>>)
    IN  [k \in 1..Len(rest) |->
            [j \in 1..Len(Tokens(rest[k])) |-> float(Tokens(rest[k])[j])]]

\* line 127 raises ValueError when a token is no float
NumRaises(lines) ==
    \E k \in 4..Len(lines) :
        \E j \in 1..Len(Tokens(lines[k])) : ~IsFloatString(Tokens(lines[k])[j])

\* lines 122-127: the step table of a section body
StepData(lines) ==
    [program |-> lines[1],
     variables |-> Split(lines[2], TAB),
     units |-> Split(lines[3], TAB),
     num |-> NumRows(lines)]

\* lines 112-129: one iteration of the step loop
get_data_step ==
    /\ pc = "steps"
    /\ i < Len(section_titles)
    /\ IF IsStepTitle(At(section_titles, i))
       THEN LET lines == Split(StepSection(i), NL)
            IN  /\ section' = StepSection(i)
                /\ IF Len(lines) < 3
                   THEN /\ Raise("get_data", "IndexError")
                        /\ UNCHANGED <<i, data>>
                   ELSE IF NumRaises(lines)
                   THEN /\ Raise("get_data", "ValueError")
                        /\ UNCHANGED <<i, data>>
                   ELSE /\ data' = [data EXCEPT !.steps = Append(@, StepData(lines))]
                        /\ i' = i + 1
                        /\ UNCHANGED <<pc, err>>
       ELSE /\ i' = i + 1
            /\ UNCHANGED <<pc, err, section, data>>
    /\ UNCHANGED <<raw, start_indices, end_indices, section_titles, num_steps,
                   plot_vars, key_vars>>

\* line 131: return data
get_data_return ==
    /\ pc = "steps"
    /\ i = Len(section_titles)
    /\ pc' = "returned"
    /\ UNCHANGED <<i, err, parse_vars, plot_vars, key_vars>>

(***************************************************************************)
(* get_key_index (lines 146-153): the loop returns the first index whose   *)
(* entry contains the alias; falling off the end of the function returns   *)
(* None.                                                                   *)
(***************************************************************************)
RECURSIVE get_key_index_from(_, _, _)
get_key_index_from(alias, steps, i0) ==
    IF i0 >= Len(steps) THEN None
    ELSE IF IsSubstring(Lower(Strip(alias)), Lower(Strip(At(steps, i0)))) THEN Index(i0)
    ELSE get_key_index_from(alias, steps, i0 + 1)

\* the lookup with index 0 as the result when no entry matches
get_key_index_default_zero(alias, steps) ==
    IF get_key_index_from(alias, steps, 0) = None THEN Index(0)
    ELSE get_key_index_from(alias, steps, 0)

get_key_index(alias, steps) == get_key_index_from(alias, steps, 0)

\* a call of get_key_index on the arguments of the state
get_key_index_call ==
    /\ pc = "get_key_index"
    /\ key_index' = get_key_index(arg_alias, arg_steps)
    /\ pc' = "key_returned"
    /\ UNCHANGED <<i, err, parse_vars, plot_vars, arg_alias, arg_steps>>

(***************************************************************************)
(* plot_SDT (lines 158-239) and its callback toggle_visibility.            *)
(***************************************************************************)
Time == <<"t", "i", "m", "e">>
Temp == <<"t", "e", "m", "p">>
Heat == <<"h", "e", "a", "t">>

\* the rows with the filter of line 185 left out
FilterRowsKeepAll(num, variables) == num

\* line 185: remove incomplete entries in num data
FilterRows(num, variables) ==
    SelectSeq(num, LAMBDA tup : Len(tup) = Len(variables))

\* line 200: the checkbox label of step i
Label(i0, program) == Str(i0 + 1) \o <<".">> \o program

\* lines 172-178: an empty label_index_dict, a figure with no line yet
plot_SDT_begin ==
    /\ pc = "returned"
    /\ label_index_dict' = <<>>
    /\ visible' = <<>>
    /\ i' = 0
    /\ pc' = "plot"
    /\ UNCHANGED <<err, parse_vars, num_data, clicks, key_vars>>

\* lines 180-200: one iteration of the loop over data['steps'].  Indexing the
\* array of no rows with a column index raises IndexError (lines 191-193),
\* indexing the list variables with None raises TypeError (lines 195-197).
plot_SDT_step ==
    /\ pc = "plot"
    /\ i < Len(data.steps)
    /\ LET variables == At(data.steps, i).variables
           label == At(data.steps, i).program
           rows == FilterRows(At(data.steps, i).num, variables)
           t_ind == get_key_index(Time, variables)
           T_ind == get_key_index(Temp, variables)
           HF_ind == get_key_index(Heat, variables)
       IN  /\ num_data' = rows
           /\ IF rows = <<>> /\ {t_ind, T_ind, HF_ind} # {None}
              THEN /\ Raise("plot_SDT", "IndexError")
                   /\ UNCHANGED <<i, visible, label_index_dict>>
              ELSE IF None \in {t_ind, T_ind, HF_ind}
              THEN /\ Raise("plot_SDT", "TypeError")
                   /\ UNCHANGED <<i, visible, label_index_dict>>
              ELSE /\ visible' = Append(visible, TRUE)
                   /\ label_index_dict' =
                          [l \in DOMAIN label_index_dict \cup {Label(i, label)} |->
                              IF l = Label(i, label) THEN i ELSE label_index_dict[l]]
                   /\ i' = i + 1
                   /\ UNCHANGED <<pc, err>>
    /\ UNCHANGED <<parse_vars, clicks, key_vars>>

\* lines 203-232: the axis labels read T_unit and HF_unit, which no iteration
\* has bound when data['steps'] is empty; then the CheckButtons are created
\* with one box per label and toggle_visibility is connected
plot_SDT_checkbox ==
    /\ pc = "plot"
    /\ i = Len(data.steps)
    /\ IF Len(data.steps) = 0
       THEN /\ Raise("plot_SDT", "UnboundLocalError")
            /\ UNCHANGED clicks
       ELSE /\ clicks' = [l \in DOMAIN label_index_dict |-> 0]
            /\ pc' = "checkbox"
            /\ UNCHANGED err
    /\ UNCHANGED <<i, parse_vars, num_data, label_index_dict, visible, key_vars>>

\* lines 234-239: args.silent decides between the interactive window and
\* the saved figure
plot_SDT_show ==
    /\ pc = "checkbox"
    /\ \E silent \in BOOLEAN : pc' = IF silent THEN "saved" ELSE "shown"
    /\ UNCHANGED <<i, err, parse_vars, plot_vars, key_vars>>

SumClicks == LET RECURSIVE Sum(_)
                 Sum(S) == IF S = {} THEN 0
                           ELSE LET l == CHOOSE l \in S : TRUE
                                IN  clicks[l] + Sum(S \ {l})
             IN  Sum(DOMAIN clicks)

\* the callback with the visibility of every line flipped
toggle_visibility_all_lines(label) ==
    /\ pc = "shown"
    /\ SumClicks < MaxClicks
    /\ visible' = [k \in 1..Len(visible) |-> ~visible[k]]
    /\ clicks' = [clicks EXCEPT ![label] = @ + 1]
    /\ UNCHANGED <<pc, i, err, parse_vars, num_data, label_index_dict, key_vars>>

\* lines 162-169: the callback of a click on the checkbox of label
toggle_visibility(label) ==
    /\ pc = "shown"
    /\ SumClicks < MaxClicks
    /\ LET ind == label_index_dict[label]
       IN  visible' = [visible EXCEPT ![ind + 1] = ~visible[ind + 1]]
    /\ clicks' = [clicks EXCEPT ![label] = @ + 1]
    /\ UNCHANGED <<pc, i, err, parse_vars, num_data, label_index_dict, key_vars>>

Init ==
    /\ pc = "get_data"
    /\ raw \in {GeneralHeader \o f : f \in Files}
    /\ start_indices = <<>>
    /\ end_indices = <<>>
    /\ section_titles = <<>>
    /\ num_steps = 0
    /\ i = 0
    /\ section = <<>>
    /\ data = NoData
    /\ err = "none"
    /\ num_data = <<>>
    /\ label_index_dict = <<>>
    /\ visible = <<>>
    /\ clicks = <<>>
    /\ arg_alias = <<>>
    /\ arg_steps = <<>>
    /\ key_index = None

Next ==
    \/ get_data_scan
    \/ get_data_meta
    \/ get_data_extend
    \/ get_data_step
    \/ get_data_return
    \/ plot_SDT_begin
    \/ plot_SDT_step
    \/ plot_SDT_checkbox
    \/ plot_SDT_show
    \/ \E label \in DOMAIN label_index_dict : toggle_visibility(label)

Spec == Init /\ [][Next]_vars

(***************************************************************************)
(* get_key_index on its own: every alias and every list of column names    *)
(* within the bounds.                                                      *)
(***************************************************************************)
AliasChars == {"t", "T", " "}
NameChars == {"T", "e", " "}

StringsUpTo(chars, n) == UNION {[1..k -> chars] : k \in 0..n}

InitKey ==
    /\ pc = "get_key_index"
    /\ arg_alias \in StringsUpTo(AliasChars, MaxAliasLen)
    /\ arg_steps \in UNION {[1..n -> StringsUpTo(NameChars, MaxNameLen)] : n \in 0..MaxVars}
    /\ key_index = None
    /\ raw = <<>>
    /\ start_indices = <<>>
    /\ end_indices = <<>>
    /\ section_titles = <<>>
    /\ num_steps = 0
    /\ i = 0
    /\ section = <<>>
    /\ data = NoData
    /\ err = "none"
    /\ num_data = <<>>
    /\ label_index_dict = <<>>
    /\ visible = <<>>
    /\ clicks = <<>>

NextKey == get_key_index_call

SpecKey == InitKey /\ [][NextKey]_vars

(***************************************************************************)
(* The claims.                                                             *)
(***************************************************************************)
General == <<"g", "e", "n", "e", "r", "a", "l">>

\* get_data is over: it has returned or raised
GetDataOver == pc \notin {"get_data", "meta", "steps", "get_key_index", "key_returned"}

\* the 0-based indices of the sections the scanner found
Sections == 0..(Len(section_titles) - 1)

\* C1: when get_data returns, a section's title is a key of data['meta'] if
\* and only if the title, trimmed and lower-cased, is not 'step', and
\* data['steps'] has one table per section whose title is 'step': every
\* section is classified by its title, whatever the order of the headers.
C1_ClassifiedByTitle ==
    pc = "returned" =>
        /\ \A k \in Sections :
               At(section_titles, k) \in DOMAIN data.meta
                   <=> ~IsStepTitle(At(section_titles, k))
        /\ Len(data.steps) =
               Cardinality({k \in Sections : IsStepTitle(At(section_titles, k))})

\* the lines of a text; a final newline ends the last line
LinesOf(text) ==
    LET ls == Split(text, NL)
    IN  IF ls[Len(ls)] = <<>> THEN SubSeq(ls, 1, Len(ls) - 1) ELSE ls

HasTab(line) == \E k \in 1..Len(line) : line[k] = TAB

FirstTab(line) == CHOOSE k \in 1..Len(line) : line[k] = TAB /\ \A j \in 1..(k - 1) : line[j] # TAB

\* the text before and after the first tab of a line
KeyOf(line) == SubSeq(line, 1, FirstTab(line) - 1)
ValueOf(line) == SubSeq(line, FirstTab(line) + 1, Len(line))

\* the text after the synthetic header
Preamble == Slice(raw, Len(GeneralHeader), Len(raw))

\* C2: when the scanner finds no header but the synthetic one and every
\* preamble line is a key<TAB>value line, get_data returns without raising,
\* with no step and with 'general' as the only key of data['meta'], holding
\* the key/value pairs of the preamble.  (Stated for a preamble of at least
\* one line.)
C2_NoHeaderReturns ==
    (/\ GetDataOver
     /\ Len(section_titles) = 1
     /\ LinesOf(Preamble) # <<>>
     /\ \A k \in 1..Len(LinesOf(Preamble)) : HasTab(LinesOf(Preamble)[k]))
    => /\ pc # "get_data_raised"
       /\ data.steps = <<>>
       /\ DOMAIN data.meta = {General}
       /\ data.meta[General] = MetaDict(LinesOf(Preamble))

Filtered(k) ==
    \/ pc = "plot" /\ i = k + 1
    \/ pc \in {"checkbox", "shown", "saved"} /\ Len(data.steps) = k + 1
    \/ pc = "plot_SDT_raised" /\ err # "UnboundLocalError" /\ i = k

InMetaLoop == Len(start_indices) = Len(section_titles)

NonEmpty(lines) == SelectSeq(lines, LAMBDA line : line # <<>>)

\* C4: blank lines of a metadata section body are left out: when every
\* non-empty line of the body of a non-step section has a tab, the iteration
\* of that section does not raise, and meta[title] is what the non-empty
\* lines give.
C4_BlankLinesSkipped ==
    /\ (/\ pc = "get_data_raised"
        /\ InMetaLoop
        /\ i + 1 < Len(start_indices)
        /\ ~IsStepTitle(At(section_titles, i)))
       => \E k \in 1..Len(Split(MetaSection(i), NL)) :
              /\ Split(MetaSection(i), NL)[k] # <<>>
              /\ ~HasTab(Split(MetaSection(i), NL)[k])
    /\ (/\ pc = "meta"
        /\ i > 0
        /\ ~IsStepTitle(At(section_titles, i - 1)))
       => data.meta[At(section_titles, i - 1)] =
              MetaDict(NonEmpty(Split(MetaSection(i - 1), NL)))

\* a line that consists solely of '[', word or space characters, ']'
IsHeaderLine(line) ==
    /\ Len(line) >= 3
    /\ line[1] = "["
    /\ line[Len(line)] = "]"
    /\ \A k \in 2..(Len(line) - 1) : line[k] \in WordChars \cup {" ", TAB}

\* the entries of the header lines among lines k.. of the text, the first of
\* them at offset p: a header's match starts at the newline before its line
\* and ends after the newline that ends it.  Only a line that a newline ends
\* is counted (the last element of lines is what follows the last newline).
RECURSIVE HeaderEntries(_, _, _)
HeaderEntries(lines, k, p) ==
    IF k > Len(lines) THEN <<>>
    ELSE (IF IsHeaderLine(lines[k]) /\ k < Len(lines)
          THEN <<<<p - 1, p + Len(lines[k]) + 1,
                   SubSeq(lines[k], 2, Len(lines[k]) - 1)>>>>
          ELSE <<>>)
         \o HeaderEntries(lines, k + 1, p + Len(lines[k]) + 1)

\* C5: find_section_indices returns one entry (start, end, title), in text
\* order, for every line of the text that is a header line and none for
\* anything else: also for a header that follows another header directly or
\* is the first line of the file, and not for a bracket that spans lines.
C5_EveryHeaderLineFound ==
    pc \in {"meta", "steps", "returned", "get_data_raised"} =>
        [k \in 1..Len(section_titles) |->
            <<start_indices[k], end_indices[k], section_titles[k]>>]
        = HeaderEntries(Split(raw, NL), 1, 0)

\* C6: the step count of find_section_indices is the number of headers
\* whose title, trimmed and lower-cased, is 'step', the sections get_data
\* treats as step sections.
C6_StepCountByTitle ==
    pc \in {"meta", "steps", "returned", "get_data_raised"} =>
        num_steps = Cardinality({k \in Sections : IsStepTitle(At(section_titles, k))})

\* the entries of steps that contain the alias, trimmed and lower-cased
Hits(alias, steps) ==
    {k \in 0..(Len(steps) - 1) :
        IsSubstring(Lower(Strip(alias)), Lower(Strip(At(steps, k))))}

\* C7: get_key_index returns the smallest index whose entry, trimmed and
\* lower-cased, contains the trimmed and lower-cased alias; when no entry
\* does, it returns None, which is no index (never 0).
C7_FirstMatchOrNone ==
    pc = "key_returned" =>
        LET hits == Hits(arg_alias, arg_steps)
        IN  IF hits = {}
            THEN /\ key_index = None
                 /\ \A k \in 0..Len(arg_steps) : key_index # Index(k)
            ELSE \E k \in hits :
                     /\ \A j \in hits : k <= j
                     /\ key_index = Index(k)

\* C7 witness: the first column name does not contain the alias, the second
\* does, as a proper substring and in another case.
C7_SecondColumnMatches ==
    /\ pc = "key_returned"
    /\ key_index = Index(1)
    /\ arg_alias = <<"t">>
    /\ arg_steps = <<<<"e">>, <<"e", "T">>>>

\* C8: for a non-empty metadata line the key is the text before the first
\* tab and the value is all of the text after the first tab.
C8_ValueIsRestOfLine ==
    (/\ pc = "meta"
     /\ i > 0)
    => LET lines == Split(MetaSection(i - 1), NL)
           dict == data.meta[At(section_titles, i - 1)]
       IN  \A k \in 1..Len(lines) :
               (/\ lines[k] # <<>>
                /\ \A j \in (k + 1)..Len(lines) :
                       HasTab(lines[j]) => KeyOf(lines[j]) # KeyOf(lines[k]))
               => /\ KeyOf(lines[k]) \in DOMAIN dict
                  /\ dict[KeyOf(lines[k])] = ValueOf(lines[k])

\* the text between the end of header k and the start of the next header
\* (or the end of the file), once line 111 has run
Between(k) == Slice(raw, At(end_indices, k), At(start_indices, k + 1))

\* C9: the body the step loop slices is the text between the header's end
\* and the next header's start less at most one trailing newline: no other
\* character is removed, so no character of the last data line is lost.
\* (Stated for a step table that has a data row.)
C9_OnlyNewlineTrimmed ==
    (/\ pc = "steps"
     /\ i > 0
     /\ IsStepTitle(At(section_titles, i - 1))
     /\ data.steps[Len(data.steps)].num # <<>>)
    => \/ section = Between(i - 1)
       \/ section \o <<NL>> = Between(i - 1)

\* C10: every plotted step has its own checkbox label, mapped to the index
\* of its line, and after any sequence of clicks line k is visible if and
\* only if its label was clicked an even number of times: a click flips
\* that line and no other.
C10_VisibleIffEvenClicks ==
    /\ pc \in {"plot", "checkbox", "shown", "saved"} =>
           /\ Cardinality(DOMAIN label_index_dict) = Len(visible)
           /\ \A k \in 0..(Len(visible) - 1) :
                  /\ Label(k, At(data.steps, k).program) \in DOMAIN label_index_dict
                  /\ label_index_dict[Label(k, At(data.steps, k).program)] = k
    /\ pc = "shown" =>
           \A k \in 0..(Len(visible) - 1) :
               At(visible, k) <=> clicks[Label(k, At(data.steps, k).program)] % 2 = 0

\* C10 witness: two steps with the same program text, the first box clicked
\* once and the second twice: the first line is hidden, the second visible.
C10_TwoStepsSameProgram ==
    /\ pc = "shown"
    /\ Len(visible) = 2
    /\ data.steps[1].program = data.steps[2].program
    /\ clicks[Label(0, data.steps[1].program)] = 1
    /\ clicks[Label(1, data.steps[2].program)] = 2
    /\ visible = <<FALSE, TRUE>>

====
